---- MODULE Spec2Model ----
(***************************************************************************)
(* Model of youtube_to_mp3_with_lyrics.py: the SRT -> LRC conversion       *)
(* (parse_time, seconds_to_lrc_time, parse_srt_file, filter_subtitles,     *)
(* convert_to_lrc_lines) and the two drivers that call it                  *)
(* (merge_audio_and_subtitle and the download branch of main).             *)
(*                                                                         *)
(* A Python str is a sequence of one-character strings.  A time value (a   *)
(* Python float of seconds) is an integer number of milliseconds: the SRT  *)
(* grammar carries exactly three fractional digits, and every arithmetic   *)
(* step of the code (h*3600 + m*60 + s, s - offset, // 60, % 60, * 100)    *)
(* is taken exactly on that grid.  Binary rounding of the floats is not    *)
(* represented: where a float lies just below its decimal text the code    *)
(* can render one centisecond less than the exact value (3605.99 s is      *)
(* rendered [60:05.98]), and a gap of exactly 0.1 s can compare either     *)
(* way.  The inputs below avoid such values.                               *)
(***************************************************************************)
EXTENDS Integers, Sequences, FiniteSets, TLC

\* ------------------------------------------------------------------------
\* Python str primitives
\* ------------------------------------------------------------------------
Digits == <<"0", "1", "2", "3", "4", "5", "6", "7", "8", "9">>

IsDigit(c) == \E d \in DOMAIN Digits : Digits[d] = c

DigitVal(c) == (CHOOSE d \in DOMAIN Digits : Digits[d] = c) - 1

\* str.isspace for the characters of the model's alphabet
IsSpace(c) == c \in {" ", "\n", "\t", "\r"}

\* c in s
HasChar(s, c) == \E i \in DOMAIN s : s[i] = c

\* s[i:] (1-based i)
Tail_from(s, i) == SubSeq(s, i, Len(s))

\* s.startswith(p) at 1-based position i
MatchesAt(s, i, p) ==
    /\ i >= 1
    /\ i + Len(p) - 1 <= Len(s)
    /\ \A k \in DOMAIN p : s[i + k - 1] = p[k]

\* str.strip()
Strip(s) ==
    LET keep == {i \in DOMAIN s : ~IsSpace(s[i])}
    IN IF keep = {} THEN <<>>
       ELSE LET lo == CHOOSE i \in keep : \A j \in keep : i <= j
                hi == CHOOSE i \in keep : \A j \in keep : j <= i
            IN SubSeq(s, lo, hi)

\* str.split(sep) for a non-empty separator string sep
RECURSIVE Split(_, _)
Split(s, sep) ==
    LET hits == {i \in DOMAIN s : MatchesAt(s, i, sep)}
    IN IF hits = {} THEN <<s>>
       ELSE LET i == CHOOSE h \in hits : \A j \in hits : h <= j
            IN <<SubSeq(s, 1, i - 1)>> \o Split(Tail_from(s, i + Len(sep)), sep)

\* str.replace(a, b) for single characters
Replace(s, a, b) == [i \in DOMAIN s |-> IF s[i] = a THEN b ELSE s[i]]

\* sep.join(parts)
RECURSIVE Join(_, _)
Join(parts, sep) ==
    IF parts = <<>> THEN <<>>
    ELSE IF Len(parts) = 1 THEN parts[1]
    ELSE parts[1] \o sep \o Join(Tail(parts), sep)

\* value of a non-empty string of decimal digits
RECURSIVE DecVal(_)
DecVal(s) ==
    IF s = <<>> THEN 0
    ELSE DecVal(SubSeq(s, 1, Len(s) - 1)) * 10 + DigitVal(s[Len(s)])

AllDigits(s) == \A i \in DOMAIN s : IsDigit(s[i])

\* sign and magnitude text of a numeric literal after strip()
SignOf(t) == IF t # <<>> /\ t[1] = "-" THEN -1 ELSE 1

Unsigned(t) == IF t # <<>> /\ t[1] \in {"-", "+"} THEN Tail(t) ELSE t

\* int(x): [ok, val]; not ok is the ValueError "invalid literal for int()"
py_int(x) ==
    LET u == Unsigned(Strip(x))
    IN IF u # <<>> /\ AllDigits(u)
       THEN [ok |-> TRUE, val |-> SignOf(Strip(x)) * DecVal(u)]
       ELSE [ok |-> FALSE, val |-> 0]

\* the first three fractional digits as milliseconds ("5" -> 500)
FracMs(f) ==
    LET d(k) == IF k <= Len(f) THEN DigitVal(f[k]) ELSE 0
    IN d(1) * 100 + d(2) * 10 + d(3)

\* float(x) in milliseconds: [ok, val]; not ok is the ValueError
\* "could not convert string to float".  Literals of the model's alphabet:
\* optional sign, digits, at most one '.', at least one digit.
py_float(x) ==
    LET u == Unsigned(Strip(x))
        parts == Split(u, <<".">>)
        ip == parts[1]
        fp == IF Len(parts) = 2 THEN parts[2] ELSE <<>>
    IN IF /\ Len(parts) <= 2
          /\ AllDigits(ip) /\ AllDigits(fp)
          /\ Len(ip) + Len(fp) > 0
       THEN [ok |-> TRUE,
             val |-> SignOf(Strip(x)) * (DecVal(ip) * 1000 + FracMs(fp))]
       ELSE [ok |-> FALSE, val |-> 0]

\* format(n, "02d") for n >= 0
RECURSIVE DecStr(_)
DecStr(n) ==
    IF n < 10 THEN <<Digits[n + 1]>>
    ELSE DecStr(n \div 10) \o <<Digits[(n % 10) + 1]>>

Fmt02d(n) == IF n < 10 THEN <<"0">> \o DecStr(n) ELSE DecStr(n)

\* ------------------------------------------------------------------------
\* parse_time
\* ------------------------------------------------------------------------
\* A call's result: ok with the value in ms, or the ValueError raised, with
\* the text its message quotes.
Returned(v) == [ok |-> TRUE, val |-> v, exc |-> "none", text |-> <<>>]

Raised(kind, t) == [ok |-> FALSE, val |-> 0, exc |-> kind, text |-> t]

MsPerSecond == 1000

MsPerMinute == 60000

MsPerHour == 3600000

\* the value of parts[0], parts[1], parts[2] once the count is 2 or 3
hms(hp, mp, sp) ==
    LET h == py_int(hp)
        m == py_int(mp)
        s == py_float(sp)
    IN IF ~h.ok THEN Raised("int", hp)
       ELSE IF ~m.ok THEN Raised("int", mp)
       ELSE IF ~s.ok THEN Raised("float", sp)
       ELSE Returned(h.val * MsPerHour + m.val * MsPerMinute + s.val)

parse_time_comma_ok(time_str) ==
    LET ts == Replace(time_str, ",", ".")
        t1 == IF ~HasChar(ts, ".") THEN ts \o <<".", "0", "0", "0">> ELSE ts
        parts == Split(Strip(t1), <<":">>)
    IN IF Len(parts) = 3 THEN hms(parts[1], parts[2], parts[3])
       ELSE IF Len(parts) = 2 THEN hms(<<"0">>, parts[1], parts[2])
       ELSE Raised("format", t1)

parse_time_two_only(time_str) ==
    LET t1 == IF ~HasChar(time_str, ".")
              THEN time_str \o <<".", "0", "0", "0">> ELSE time_str
        parts == Split(Strip(t1), <<":">>)
    IN IF Len(parts) >= 2
       THEN hms(<<"0">>, parts[Len(parts) - 1], parts[Len(parts)])
       ELSE Raised("format", t1)

parse_time(time_str) ==
    LET t1 == IF ~HasChar(time_str, ".")
              THEN time_str \o <<".", "0", "0", "0">> ELSE time_str
        parts == Split(Strip(t1), <<":">>)
    IN IF Len(parts) = 3 THEN hms(parts[1], parts[2], parts[3])
       ELSE IF Len(parts) = 2 THEN hms(<<"0">>, parts[1], parts[2])
       ELSE Raised("format", t1)

\* ------------------------------------------------------------------------
\* seconds_to_lrc_time
\* ------------------------------------------------------------------------
seconds_to_lrc_time_rounding(seconds) ==
    LET sec0 == IF seconds < 0 THEN 0 ELSE seconds
        minutes == sec0 \div MsPerMinute
        secs == sec0 % MsPerMinute
        centiseconds == ((secs + 5) \div 10) % 100
    IN <<"[">> \o Fmt02d(minutes) \o <<":">> \o Fmt02d(secs \div MsPerSecond)
       \o <<".">> \o Fmt02d(centiseconds) \o <<"]">>

seconds_to_lrc_time(seconds) ==
    LET sec0 == IF seconds < 0 THEN 0 ELSE seconds
        minutes == sec0 \div MsPerMinute
        secs == sec0 % MsPerMinute
        centiseconds == (secs \div 10) % 100
    IN <<"[">> \o Fmt02d(minutes) \o <<":">> \o Fmt02d(secs \div MsPerSecond)
       \o <<".">> \o Fmt02d(centiseconds) \o <<"]">>

\* ------------------------------------------------------------------------
\* parse_srt_file
\* ------------------------------------------------------------------------
\* \d{2}:\d{2}:\d{2},\d{3} at position p of s
StampAt(s, p) ==
    /\ p >= 1
    /\ p + 11 <= Len(s)
    /\ \A k \in {0, 1, 3, 4, 6, 7, 9, 10, 11} : IsDigit(s[p + k])
    /\ s[p + 2] = ":"
    /\ s[p + 5] = ":"
    /\ s[p + 8] = ","

\* \s* from position i: the first position at or after i that is no space
RECURSIVE SkipSpace(_, _)
SkipSpace(s, i) ==
    IF i <= Len(s) /\ IsSpace(s[i]) THEN SkipSpace(s, i + 1) ELSE i

\* time_pattern matched with its first timestamp at position p
PatternAt(s, p) ==
    /\ StampAt(s, p)
    /\ LET a == SkipSpace(s, p + 12)
       IN /\ MatchesAt(s, a, <<"-", "-", ">">>)
          /\ StampAt(s, SkipSpace(s, a + 3))

\* re.search(time_pattern, time_line): [matched, g1, g2]
time_search(time_line) ==
    LET hits == {p \in DOMAIN time_line : PatternAt(time_line, p)}
    IN IF hits = {} THEN [matched |-> FALSE, g1 |-> <<>>, g2 |-> <<>>]
       ELSE LET p == CHOOSE h \in hits : \A j \in hits : h <= j
                q == SkipSpace(time_line, SkipSpace(time_line, p + 12) + 3)
            IN [matched |-> TRUE,
                g1 |-> SubSeq(time_line, p, p + 11),
                g2 |-> SubSeq(time_line, q, q + 11)]

\* re.sub(r'<[^>]+>', '', s)
RECURSIVE strip_tags(_)
strip_tags(s) ==
    IF s = <<>> THEN <<>>
    ELSE LET closes == {j \in 2..Len(s) : s[j] = ">"}
         IN IF s[1] = "<" /\ closes # {}
                /\ (CHOOSE j \in closes : \A k \in closes : j <= k) >= 3
            THEN strip_tags(Tail_from(s,
                     (CHOOSE j \in closes : \A k \in closes : j <= k) + 1))
            ELSE <<s[1]>> \o strip_tags(Tail(s))

\* One pass of the loop over blocks.  kind says which path the block took:
\*   "short"   fewer than 3 lines, continue
\*   "nomatch" the time line does not match time_pattern (no else branch)
\*   "error"   ValueError inside the try, the warning is printed
\*   "empty"   text_content is empty after cleaning, nothing appended
\*   "cue"     (start_sec, end_sec, text_content) appended
NoCue == <<0, 0, <<>>>>

\* lines 57-60: a matched group, ',' replaced by '.', through parse_time
srt_stamp(group) == parse_time(Replace(group, ",", "."))

srt_block(block) ==
    LET lines == Split(Strip(block), <<"\n">>)
        time_line == lines[2]
        text_lines == Tail(Tail(lines))
        m == time_search(time_line)
        start == srt_stamp(m.g1)
        end == srt_stamp(m.g2)
        text_content == Strip(strip_tags(Strip(Join(text_lines, <<" ">>))))
    IN IF Len(lines) < 3 THEN [kind |-> "short", cue |-> NoCue]
       ELSE IF ~m.matched THEN [kind |-> "nomatch", cue |-> NoCue]
       ELSE IF ~start.ok \/ ~end.ok THEN [kind |-> "error", cue |-> NoCue]
       ELSE IF text_content = <<>> THEN [kind |-> "empty", cue |-> NoCue]
       ELSE [kind |-> "cue", cue |-> <<start.val, end.val, text_content>>]

\* content after the BOM test, split into blocks
srt_blocks(content) ==
    LET c == IF content # <<>> /\ content[1] = "BOM" THEN Tail(content)
             ELSE content
    IN Split(Strip(c), <<"\n", "\n">>)

\* a loop that stops at the first block it cannot use
RECURSIVE collect_break(_)
collect_break(blocks) ==
    IF blocks = <<>> THEN <<>>
    ELSE LET r == srt_block(blocks[1])
         IN IF r.kind \in {"short", "nomatch", "error"} THEN <<>>
            ELSE (IF r.kind = "cue" THEN <<r.cue>> ELSE <<>>)
                 \o collect_break(Tail(blocks))

\* the loop of lines 45-69: subtitles in block order
RECURSIVE collect(_)
collect(blocks) ==
    IF blocks = <<>> THEN <<>>
    ELSE LET r == srt_block(blocks[1])
         IN (IF r.kind = "cue" THEN <<r.cue>> ELSE <<>>) \o collect(Tail(blocks))

\* the blocks that print "Warning: Skipping subtitle block"
RECURSIVE warned(_)
warned(blocks) ==
    IF blocks = <<>> THEN <<>>
    ELSE (IF srt_block(blocks[1]).kind = "error" THEN <<blocks[1]>> ELSE <<>>)
         \o warned(Tail(blocks))

\* sorted(subtitles, key=lambda x: x[0]): stable
RECURSIVE insert_by_start(_, _)
insert_by_start(done, x) ==
    IF done = <<>> THEN <<x>>
    ELSE IF done[Len(done)][1] <= x[1] THEN Append(done, x)
    ELSE Append(insert_by_start(SubSeq(done, 1, Len(done) - 1), x),
                done[Len(done)])

RECURSIVE sort_fold(_, _)
sort_fold(done, rest) ==
    IF rest = <<>> THEN done
    ELSE sort_fold(insert_by_start(done, rest[1]), Tail(rest))

sort_by_start_none(subtitles) == subtitles

sort_by_start(subtitles) == sort_fold(<<>>, subtitles)

Abs(x) == IF x < 0 THEN -x ELSE x

\* the 0.1 of line 80, in ms
DedupEpsMs == 100

\* the condition of lines 78-80 under which current is appended
dedup_keeps(filtered_subtitles, current) ==
    \/ filtered_subtitles = <<>>
    \/ LET last == filtered_subtitles[Len(filtered_subtitles)]
       IN /\ current[3] # last[3]
          /\ Abs(current[1] - last[1]) > DedupEpsMs

RECURSIVE dedup_fold(_, _)
dedup_fold(filtered_subtitles, rest) ==
    IF rest = <<>> THEN filtered_subtitles
    ELSE dedup_fold(IF dedup_keeps(filtered_subtitles, rest[1])
                    THEN Append(filtered_subtitles, rest[1])
                    ELSE filtered_subtitles,
                    Tail(rest))

dedup(subtitles) == dedup_fold(<<>>, subtitles)

parse_srt_file(content) == dedup(sort_by_start(collect(srt_blocks(content))))

\* ------------------------------------------------------------------------
\* filter_subtitles, convert_to_lrc_lines
\* ------------------------------------------------------------------------
filter_subtitles_closed(subs, start, end) ==
    SelectSeq(subs, LAMBDA sub : sub[1] <= end /\ sub[2] >= start)

filter_subtitles(subs, start, end) ==
    SelectSeq(subs, LAMBDA sub : sub[1] < end /\ sub[2] > start)

lrc_line_no_offset(sub, offset) == seconds_to_lrc_time(sub[1]) \o sub[3]

lrc_line(sub, offset) == seconds_to_lrc_time(sub[1] - offset) \o sub[3]

convert_to_lrc_lines_clamped(subs, offset) ==
    [i \in DOMAIN subs |-> lrc_line(subs[i], offset)]

convert_to_lrc_lines(subs, offset) ==
    LET kept == SelectSeq(subs, LAMBDA sub : sub[1] - offset >= 0)
    IN [i \in DOMAIN kept |-> lrc_line(kept[i], offset)]

\* ------------------------------------------------------------------------
\* The SRT -> LRC conversion of merge_audio_and_subtitle (lines 145-156) and
\* of main (lines 503-514)
\* ------------------------------------------------------------------------
\* an argument not given: None, false at 'if start_time and end_time' as the
\* empty text is
None == <<>>

Given(arg) == arg # <<>>

\* the conversion ran to its end: the lines to write
Converted(windowed, start_sec, end_sec, all_subs, filtered_subs, lrc_lines) ==
    [ok |-> TRUE, err |-> Returned(0), windowed |-> windowed,
     start_sec |-> start_sec, end_sec |-> end_sec, all_subs |-> all_subs,
     filtered_subs |-> filtered_subs, lrc_lines |-> lrc_lines]

\* parse_time raised on a window boundary: nothing to write
ConvertFailed(err, all_subs) ==
    [ok |-> FALSE, err |-> err, windowed |-> TRUE,
     start_sec |-> 0, end_sec |-> 0, all_subs |-> all_subs,
     filtered_subs |-> <<>>, lrc_lines |-> <<>>]

\* lines 147-154 (505-512): both boundaries parsed
windowed_lrc(all_subs, start_sec, end_sec, filtered_subs) ==
    Converted(TRUE, start_sec, end_sec, all_subs, filtered_subs,
              convert_to_lrc_lines(filtered_subs, start_sec))

\* lines 146-156 (504-514): the window, once the document and both boundaries
\* have been evaluated
lrc_of(all_subs, windowed, start, end) ==
    IF windowed
    THEN IF ~start.ok THEN ConvertFailed(start, all_subs)
         ELSE IF ~end.ok THEN ConvertFailed(end, all_subs)
         ELSE windowed_lrc(all_subs, start.val, end.val,
                           filter_subtitles(all_subs, start.val, end.val))
    ELSE Converted(FALSE, 0, 0, all_subs, all_subs,
                   convert_to_lrc_lines(all_subs, 0))

\* the conversion, had line 505 read 'if args.start or args.end'
srt_to_lrc_either(content, start_time, end_time) ==
    lrc_of(parse_srt_file(content), Given(start_time) \/ Given(end_time),
           parse_time(start_time), parse_time(end_time))

srt_to_lrc(content, start_time, end_time) ==
    lrc_of(parse_srt_file(content), Given(start_time) /\ Given(end_time),
           parse_time(start_time), parse_time(end_time))

\* ------------------------------------------------------------------------
\* Inputs
\* ------------------------------------------------------------------------
D2(n) == <<Digits[((n \div 10) % 10) + 1], Digits[(n % 10) + 1]>>

D3(n) == <<Digits[((n \div 100) % 10) + 1]>> \o D2(n)

\* "HH:MM:SS<sep>mmm" and "MM:SS<sep>mmm"
Text3(h, m, s, ms, sep) ==
    D2(h) \o <<":">> \o D2(m) \o <<":">> \o D2(s) \o <<sep>> \o D3(ms)

Text2(m, s, ms, sep) == D2(m) \o <<":">> \o D2(s) \o <<sep>> \o D3(ms)

\* "HH:MM:SS" and "MM:SS", no fractional part
Plain3(h, m, s) == D2(h) \o <<":">> \o D2(m) \o <<":">> \o D2(s)

Plain2(m, s) == D2(m) \o <<":">> \o D2(s)

MaxHours == 1

Hours == 0..MaxHours

Minutes == {0, 1, 59}

Secs == {0, 5, 20, 59}

Millis == {0, 50, 999}

\* texts with one component, four components, a non-numeric component,
\* and the empty text
OddTexts ==
    { <<"2", "0">>,
      <<"1", ":", "2", ":", "3", ":", "4">>,
      <<"x", "x", ":", "0", "0">>,
      <<"0", "0", ":", "0", "5", ":", "x">>,
      <<>>,
      <<"0", "0", ":", "0", "5", ".", "5">> }

DotTexts ==
    {Text3(h, m, s, ms, ".") : h \in Hours, m \in Minutes, s \in Secs, ms \in Millis}
    \cup {Text2(m, s, ms, ".") : m \in Minutes, s \in Secs, ms \in Millis}

CommaTexts ==
    {Text3(h, m, s, ms, ",") : h \in Hours, m \in Minutes, s \in Secs, ms \in Millis}
    \cup {Text2(m, s, ms, ",") : m \in Minutes, s \in Secs, ms \in Millis}

PlainTexts ==
    {Plain3(h, m, s) : h \in Hours, m \in Minutes, s \in Secs}
    \cup {Plain2(m, s) : m \in Minutes, s \in Secs}

TimeTexts == DotTexts \cup CommaTexts \cup PlainTexts \cup OddTexts

\* what time_pattern can capture: "HH:MM:SS,mmm"
StampTexts ==
    {Text3(h, m, s, ms, ",") : h \in Hours, m \in Minutes, s \in Secs, ms \in Millis}

\* arguments of seconds_to_lrc_time, in ms
SecondsArgs ==
    {h * MsPerHour + m * MsPerMinute + s * MsPerSecond + ms :
        h \in Hours, m \in Minutes, s \in Secs, ms \in {0, 4, 5, 9, 995, 999}}
    \cup {-1000, -1}

\* "i\nHH:MM:SS,mmm --> HH:MM:SS,mmm\ntext" for times in ms
SrtStamp(t) ==
    Text3(t \div MsPerHour, (t \div MsPerMinute) % 60, (t \div MsPerSecond) % 60,
          t % MsPerSecond, ",")

CueBlock(d) ==
    <<d.idx, "\n">> \o SrtStamp(d.start) \o <<" ", "-", "-", ">", " ">>
    \o SrtStamp(d.end) \o <<"\n">> \o d.text

\* Cue blocks: a duplicate pair 50 ms apart (a, b), another text 50 ms after
\* a (c), the text of a again 10 s later (d), an earlier cue (e), a tagged
\* cue that ties with a (f).  No two starts are exactly 100 ms apart: that
\* comparison is decided by binary rounding in the code.
CueShapes ==
    { [idx |-> "1", start |-> 20000, end |-> 24400, text |-> <<"H", "i">>],
      [idx |-> "2", start |-> 20050, end |-> 24400, text |-> <<"H", "i">>],
      [idx |-> "3", start |-> 20050, end |-> 21000, text |-> <<"Y", "o">>],
      [idx |-> "4", start |-> 30000, end |-> 31000, text |-> <<"H", "i">>],
      [idx |-> "5", start |-> 5000, end |-> 6000, text |-> <<"Y", "o">>],
      [idx |-> "6", start |-> 20000, end |-> 22000,
       text |-> <<"<", "i", ">", "Y", "o", "<", "/", "i", ">">>] }

\* Blocks that give no cue: the arrow line is missing, a timestamp is
\* malformed, the block has two lines only
NoArrowBlock == <<"7", "\n", "H", "i", "\n", "Y", "o">>

BadStampBlock ==
    <<"8", "\n">> \o <<"0", "0", ":", "0", "0", ":", "2", "x", ",", "0", "0", "0">>
    \o <<" ", "-", "-", ">", " ">> \o SrtStamp(24400) \o <<"\n", "H", "i">>

ShortBlock == <<"9", "\n", "H", "i">>

BadBlocks == {NoArrowBlock, BadStampBlock, ShortBlock}

BlockTexts == {CueBlock(d) : d \in CueShapes} \cup BadBlocks

MaxBlocks == 3

BlockLists == UNION {[1..n -> BlockTexts] : n \in 1..MaxBlocks}

\* the documents: blocks separated by a blank line, and one with a BOM and a
\* trailing newline
\* a block whose arrow line gives an end before its start, alone and after
\* each cue block
ReversedBlock ==
    CueBlock([idx |-> "1", start |-> 24400, end |-> 20000, text |-> <<"H", "i">>])

ReversedDocs ==
    {ReversedBlock}
    \cup {Join(<<CueBlock(d), ReversedBlock>>, <<"\n", "\n">>) : d \in CueShapes}

Documents ==
    {Join(bs, <<"\n", "\n">>) : bs \in BlockLists}
    \cup {<<"BOM">> \o CueBlock(d) \o <<"\n">> : d \in CueShapes}
    \cup ReversedDocs

\* Documents for the conversion: cues 4-6 s, 5-6 s, 6-10 s and 20-24.4 s
\* with a block without arrow line among them; the single cue
\* "Hello world" 20-24.4 s; cues past the hour; no cue at all
Cue(i, a, b, t) == [idx |-> i, start |-> a, end |-> b, text |-> t]

HelloWorld == <<"H", "e", "l", "l", "o", " ", "w", "o", "r", "l", "d">>

WindowDoc ==
    Join(<<CueBlock(Cue("1", 4000, 6000, <<"Y", "o">>)),
           CueBlock(Cue("2", 5000, 6000, <<"H", "i">>)),
           NoArrowBlock,
           CueBlock(Cue("3", 6000, 10000, <<"Y", "o">>)),
           CueBlock(Cue("4", 20000, 24400, <<"H", "i">>))>>, <<"\n", "\n">>)

HelloDoc == CueBlock(Cue("1", 20000, 24400, HelloWorld))

HourDoc ==
    Join(<<CueBlock(Cue("1", 9999, 10500, <<"H", "i">>)),
           CueBlock(Cue("2", 3605500, 3607000, <<"Y", "o">>))>>, <<"\n", "\n">>)

EmptyDoc == ShortBlock

RunDocs == {WindowDoc, HelloDoc, HourDoc, EmptyDoc}

\* Window boundaries as the caller writes them: absent, MM:SS, HH:MM:SS,
\* with a fraction, with a comma fraction, not a timestamp
StartArgs ==
    { None, Plain2(0, 0), Plain2(0, 4), Plain2(0, 5), Plain2(0, 6),
      Plain3(0, 0, 10), Text2(0, 5, 500, "."), Text3(0, 0, 5, 0, ","),
      <<"0", "x", ":", "0", "5">>, <<"5">> }

EndArgs ==
    { None, Plain2(0, 5), Plain2(0, 6), Plain2(0, 10), Plain3(0, 0, 30),
      Text2(0, 5, 500, "."), Plain3(1, 0, 6), Text3(0, 0, 10, 0, ","),
      <<"1", ":", "2", ":", "3", ":", "4">> }

\* Runs: the subtitle track, and the windows a run may be given (none, two
\* windows, a malformed start, a malformed end, an end without a start)
TrackDocs == {WindowDoc, HelloDoc}

RunWindows ==
    { <<None, None>>,
      <<Plain2(0, 5), Plain2(0, 10)>>,
      <<Plain3(0, 0, 10), Plain3(0, 0, 30)>>,
      <<<<"0", "x", ":", "0", "5">>, Plain2(0, 10)>>,
      <<Plain2(0, 5), <<"1", ":", "2", ":", "3", ":", "4">>>>,
      <<None, Plain2(0, 10)>> }

\* ------------------------------------------------------------------------
\* State
\* ------------------------------------------------------------------------
VARIABLES
    time_str,   \* argument of the last parse_time call (before line 57's replace)
    caller,     \* "direct": parse_time(time_str); "parse_srt_file": lines 57-60
    time_val,   \* what that call returned or raised
    seconds,    \* argument of the last seconds_to_lrc_time call, ms
    lrc_time,   \* its result
    content,    \* the text read from srt_path (line 36)
    pc,         \* "read": content read; "parsed": parse_srt_file returned
    subtitles,  \* what parse_srt_file returned
    printed,    \* the blocks whose "Warning: Skipping subtitle block" was printed
    start_time, \* the start argument of the conversion (args.start)
    end_time,   \* the end argument of the conversion (args.end)
    conv,       \* what the conversion computed: the lines to write, or the error
    mode,       \* "merge" (--merge) or "download" (a URL)
    source_mp3, \* source_mp3_path exists
    source_srt, \* source_srt_path exists (download mode; its text is content)
    source_lrc, \* the file at source_lrc_path
    final_mp3,  \* the file at the final MP3 path and its lyrics tag
    run         \* the last run: its options and how it ended

timeVars == <<time_str, caller, time_val, seconds, lrc_time>>

docVars == <<content, pc, subtitles, printed>>

convVars == <<start_time, end_time, conv>>

fileVars == <<source_mp3, source_srt, source_lrc, final_mp3>>

runVars == <<mode, fileVars, run>>

vars == <<timeVars, docVars, convVars, runVars>>

\* ------------------------------------------------------------------------
\* The timestamp functions called on their own
\* ------------------------------------------------------------------------
\* a file: absent, or present with its text (a sequence of lines)
NoFile == [exists |-> FALSE, text |-> <<>>]

File(text) == [exists |-> TRUE, text |-> text]

\* the final MP3: absent, copied but without lyrics tag, or tagged
NoMp3 == [exists |-> FALSE, tagged |-> FALSE, lyrics |-> <<>>]

CopiedMp3 == [exists |-> TRUE, tagged |-> FALSE, lyrics |-> <<>>]

TaggedMp3(lrc_text) == [exists |-> TRUE, tagged |-> TRUE, lyrics |-> lrc_text]

\* the text written at lines 159 and 517: the header line, then the lines
MergeHeader == <<"[by:youtube_to_mp3_with_lyrics.py - merge mode]">>

MainHeader == <<"[by:youtube_to_mp3_with_lyrics.py]">>

lrc_text(header, lrc_lines) == <<header>> \o lrc_lines

\* how a run ended, and what it did on the way:
\*   outcome   "ok" (returned), "error" (sys.exit with a message or 1),
\*             "exists" (line 443: final file already there, exit 0)
\*   converted the SRT -> LRC conversion was started
\*   wrote     the LRC file was written
\*   embedded  the lyrics tag was saved in the final MP3
Ended(no_cleanup, outcome, converted, wrote, embedded) ==
    [no_cleanup |-> no_cleanup, outcome |-> outcome, converted |-> converted,
     wrote |-> wrote, embedded |-> embedded]

NoRun == Ended(FALSE, "none", FALSE, FALSE, FALSE)

RunIdle ==
    /\ mode = "merge"
    /\ source_mp3 = FALSE
    /\ source_srt = FALSE
    /\ source_lrc = NoFile
    /\ final_mp3 = NoMp3
    /\ run = NoRun

\* no call made
TimeIdle ==
    /\ time_str = Plain2(0, 0)
    /\ caller = "direct"
    /\ time_val = parse_time(Plain2(0, 0))
    /\ seconds = 0
    /\ lrc_time = seconds_to_lrc_time(0)

DocIdle ==
    /\ content = <<>>
    /\ pc = "parsed"
    /\ subtitles = <<>>
    /\ printed = <<>>

ConvIdle ==
    /\ start_time = None
    /\ end_time = None
    /\ conv = Converted(FALSE, 0, 0, <<>>, <<>>, <<>>)

TimeInit == TimeIdle /\ DocIdle /\ ConvIdle /\ RunIdle

\* parse_time(t), as main and merge_audio_and_subtitle call it on a window
\* boundary
ParseTimeDirect ==
    \E t \in TimeTexts :
        /\ time_str' = t
        /\ caller' = "direct"
        /\ time_val' = parse_time(t)
        /\ UNCHANGED <<seconds, lrc_time, docVars, convVars, runVars>>

\* parse_time on a group captured by time_pattern, as parse_srt_file calls it
ParseTimeStamp ==
    \E g \in StampTexts :
        /\ time_str' = g
        /\ caller' = "parse_srt_file"
        /\ time_val' = srt_stamp(g)
        /\ UNCHANGED <<seconds, lrc_time, docVars, convVars, runVars>>

LrcTime ==
    \E x \in SecondsArgs :
        /\ seconds' = x
        /\ lrc_time' = seconds_to_lrc_time(x)
        /\ UNCHANGED <<time_str, caller, time_val, docVars, convVars, runVars>>

\* parse_time on its own
ParseTimeNext == ParseTimeDirect \/ ParseTimeStamp

ParseTimeSpec == TimeInit /\ [][ParseTimeNext]_vars

\* seconds_to_lrc_time on its own
LrcTimeNext == LrcTime

LrcTimeSpec == TimeInit /\ [][LrcTimeNext]_vars

\* ------------------------------------------------------------------------
\* parse_srt_file called on a document
\* ------------------------------------------------------------------------
DocInit ==
    /\ TimeIdle
    /\ ConvIdle
    /\ RunIdle
    /\ content \in Documents
    /\ pc = "read"
    /\ subtitles = <<>>
    /\ printed = <<>>

\* lines 38-83 on the content read at line 36
ParseSrtFile ==
    /\ pc = "read"
    /\ subtitles' = parse_srt_file(content)
    /\ printed' = warned(srt_blocks(content))
    /\ pc' = "parsed"
    /\ UNCHANGED <<content, timeVars, convVars, runVars>>

DocNext == ParseSrtFile

DocSpec == DocInit /\ [][DocNext]_vars

\* ------------------------------------------------------------------------
\* The conversion called on a document and a window
\* ------------------------------------------------------------------------
ConvInit ==
    /\ TimeIdle
    /\ RunIdle
    /\ content \in RunDocs
    /\ pc = "read"
    /\ subtitles = <<>>
    /\ printed = <<>>
    /\ start_time \in StartArgs
    /\ end_time \in EndArgs
    /\ conv = Converted(FALSE, 0, 0, <<>>, <<>>, <<>>)

\* lines 503-514 (145-156 in merge mode), up to the write of the LRC file
Convert ==
    /\ pc = "read"
    /\ conv' = srt_to_lrc(content, start_time, end_time)
    /\ pc' = "converted"
    /\ UNCHANGED <<content, subtitles, printed, start_time, end_time, timeVars, runVars>>

ConvNext == Convert

ConvSpec == ConvInit /\ [][ConvNext]_vars

\* ------------------------------------------------------------------------
\* Runs of the program on one audio / one video, one after the other
\* ------------------------------------------------------------------------
\* The files named on the command line exist (lines 96-99), the metadata and
\* subtitle queries succeed and list the language (lines 425, 445-460).  An
\* external tool that fails (yt-dlp, ffmpeg, eyed3) leaves no file of its own.
RunInit ==
    /\ TimeIdle
    /\ content \in TrackDocs
    /\ pc = "run"
    /\ subtitles = <<>>
    /\ printed = <<>>
    /\ ConvIdle
    /\ mode \in {"merge", "download"}
    /\ source_mp3 = FALSE
    /\ source_srt = FALSE
    /\ source_lrc = NoFile
    /\ final_mp3 = NoMp3
    /\ run = NoRun

\* lines 166-180 (525-532): the copy to the final path and the tag are made,
\* or shutil.copy2 raises and the final path is left as it was, or the copy
\* is made and eyed3 raises (load gives None, or the save fails)
EmbedOutcomes == {"ok", "copy_failed", "tag_failed"}

\* no conversion made in the run
NoConversion == Converted(FALSE, 0, 0, <<>>, <<>>, <<>>)

\* merge_audio_and_subtitle, called by main at lines 395-418
\*   audio_ok: the copy / ffmpeg conversion of step 1 succeeds
\*   embed: how step 3 ends
MergeRun ==
    /\ mode = "merge"
    /\ \E w \in RunWindows :
       \E c \in {srt_to_lrc(content, w[1], w[2])} :
       \E no_cleanup, enhance_stereo, audio_ok \in BOOLEAN :
       \E embed \in EmbedOutcomes :
        LET reuse_mp3 == source_mp3 /\ ~enhance_stereo
            embed_ok == embed = "ok"
            lrc == IF source_lrc.exists THEN source_lrc
                   ELSE File(lrc_text(MergeHeader, c.lrc_lines))
        IN /\ start_time' = w[1]
           /\ end_time' = w[2]
           /\ IF ~reuse_mp3 /\ ~audio_ok
              THEN \* step 1 raised or exited
                   /\ run' = Ended(no_cleanup, "error", FALSE, FALSE, FALSE)
                   /\ conv' = NoConversion
                   /\ UNCHANGED fileVars
              ELSE IF ~source_lrc.exists /\ ~c.ok
              THEN \* step 2: parse_time raised at line 149
                   /\ run' = Ended(no_cleanup, "error", TRUE, FALSE, FALSE)
                   /\ conv' = c
                   /\ source_mp3' = TRUE
                   /\ UNCHANGED <<source_srt, source_lrc, final_mp3>>
              ELSE IF ~embed_ok
              THEN \* step 3: copy2 raised, or copied and eyed3 raised
                   /\ run' = Ended(no_cleanup, "error", ~source_lrc.exists,
                                   ~source_lrc.exists, FALSE)
                   /\ conv' = IF source_lrc.exists THEN NoConversion ELSE c
                   /\ source_mp3' = TRUE
                   /\ source_lrc' = lrc
                   /\ final_mp3' = IF embed = "copy_failed" THEN final_mp3
                                  ELSE CopiedMp3
                   /\ UNCHANGED source_srt
              ELSE /\ run' = Ended(no_cleanup, "ok", ~source_lrc.exists,
                                   ~source_lrc.exists, TRUE)
                   /\ conv' = IF source_lrc.exists THEN NoConversion ELSE c
                   /\ final_mp3' = TaggedMp3(lrc.text)
                   /\ source_mp3' = no_cleanup
                   /\ source_lrc' = IF no_cleanup THEN lrc ELSE NoFile
                   /\ UNCHANGED source_srt
    /\ UNCHANGED <<content, pc, subtitles, printed, mode, timeVars>>

\* main, download mode (lines 420-542)
\*   audio_ok: the yt-dlp download of line 479 succeeds
\*   embed: how lines 525-532 end
MainRun ==
    /\ mode = "download"
    /\ \E w \in RunWindows :
       \E c \in {srt_to_lrc(content, w[1], w[2])} :
       \E no_cleanup, audio_ok \in BOOLEAN :
       \E embed \in EmbedOutcomes :
        LET download == ~source_mp3 \/ ~source_srt
            embed_ok == embed = "ok"
            lrc == IF source_lrc.exists THEN source_lrc
                   ELSE File(lrc_text(MainHeader, c.lrc_lines))
        IN /\ start_time' = w[1]
           /\ end_time' = w[2]
           /\ IF final_mp3.exists
              THEN \* lines 441-443
                   /\ run' = Ended(no_cleanup, "exists", FALSE, FALSE, FALSE)
                   /\ conv' = NoConversion
                   /\ UNCHANGED fileVars
              ELSE IF download /\ ~audio_ok
              THEN \* run_command exits at line 479
                   /\ run' = Ended(no_cleanup, "error", FALSE, FALSE, FALSE)
                   /\ conv' = NoConversion
                   /\ UNCHANGED fileVars
              ELSE IF ~source_lrc.exists /\ ~c.ok
              THEN \* parse_time raised at line 507, sys.exit at line 520
                   /\ run' = Ended(no_cleanup, "error", TRUE, FALSE, FALSE)
                   /\ conv' = c
                   /\ source_mp3' = TRUE
                   /\ source_srt' = TRUE
                   /\ UNCHANGED <<source_lrc, final_mp3>>
              ELSE IF ~embed_ok
              THEN \* copy2 raised at line 525, or copied and eyed3 raised;
                   \* sys.exit at line 535
                   /\ run' = Ended(no_cleanup, "error", ~source_lrc.exists,
                                   ~source_lrc.exists, FALSE)
                   /\ conv' = IF source_lrc.exists THEN NoConversion ELSE c
                   /\ source_mp3' = TRUE
                   /\ source_srt' = TRUE
                   /\ source_lrc' = lrc
                   /\ final_mp3' = IF embed = "copy_failed" THEN final_mp3
                                  ELSE CopiedMp3
              ELSE /\ run' = Ended(no_cleanup, "ok", ~source_lrc.exists,
                                   ~source_lrc.exists, TRUE)
                   /\ conv' = IF source_lrc.exists THEN NoConversion ELSE c
                   /\ final_mp3' = TaggedMp3(lrc.text)
                   /\ source_mp3' = no_cleanup
                   /\ source_srt' = no_cleanup
                   /\ source_lrc' = IF no_cleanup THEN lrc ELSE NoFile
    /\ UNCHANGED <<content, pc, subtitles, printed, mode, timeVars>>

RunNext == MergeRun \/ MainRun

RunSpec == RunInit /\ [][RunNext]_vars

\* ------------------------------------------------------------------------
\* Claims about parse_time and seconds_to_lrc_time
\* ------------------------------------------------------------------------
Colons(s) == Cardinality({i \in DOMAIN s : s[i] = ":"})

IsPrefix(p, s) == Len(p) <= Len(s) /\ SubSeq(s, 1, Len(p)) = p

\* C6: parse_time splits on ':'; three components give
\* hours*3600 + minutes*60 + seconds, two give minutes*60 + seconds, and any
\* other count raises an error whose message quotes the offending text.
C6_ComponentCount ==
    caller = "direct" =>
        /\ \A h \in Hours, m \in Minutes, sc \in Secs, ms \in Millis :
            /\ time_str = Text3(h, m, sc, ms, ".") =>
                   time_val = Returned(((h * 3600 + m * 60 + sc) * 1000) + ms)
            /\ time_str = Plain3(h, m, sc) =>
                   time_val = Returned((h * 3600 + m * 60 + sc) * 1000)
            /\ time_str = Text2(m, sc, ms, ".") =>
                   time_val = Returned(((m * 60 + sc) * 1000) + ms)
            /\ time_str = Plain2(m, sc) =>
                   time_val = Returned((m * 60 + sc) * 1000)
        /\ Colons(time_str) \notin {1, 2} =>
            /\ ~time_val.ok
            /\ time_val.exc = "format"
            /\ IsPrefix(time_str, time_val.text)

\* a text of four components was passed and the format error was raised
C6_Witness ==
    /\ caller = "direct"
    /\ time_str = <<"1", ":", "2", ":", "3", ":", "4">>
    /\ time_val.exc = "format"

IsCommaText(t) ==
    \E h \in Hours, m \in Minutes, sc \in Secs, ms \in Millis :
        t = Text3(h, m, sc, ms, ",") \/ t = Text2(m, sc, ms, ",")

\* C7 as stated: the comma-decimal form parses to the same value as the
\* dot-decimal form, also when passed to parse_time directly.
C7_CommaSameAsDot ==
    IsCommaText(time_str) =>
        /\ time_val.ok
        /\ time_val = parse_time(Replace(time_str, ",", "."))

\* C7 amended: parse_time itself rejects the comma-decimal form with a
\* ValueError from float(); only parse_srt_file, which replaces ',' by '.'
\* before the call, parses a comma-decimal timestamp, to the value of its
\* dot-decimal form.
C7_CommaOnlyInDocument ==
    /\ (caller = "direct" /\ IsCommaText(time_str)) =>
           (~time_val.ok /\ time_val.exc = "float")
    /\ caller = "parse_srt_file" =>
           \A h \in Hours, m \in Minutes, sc \in Secs, ms \in Millis :
               time_str = Text3(h, m, sc, ms, ",") =>
                   time_val = Returned(((h * 3600 + m * 60 + sc) * 1000) + ms)

\* a comma-decimal window boundary was passed directly and was rejected
C7_Witness ==
    /\ caller = "direct"
    /\ time_str = Text3(0, 0, 20, 0, ",")
    /\ ~time_val.ok

\* C8: for seconds >= 0 the result is [MM:SS.CC] with MM the whole minutes,
\* not wrapped at 60, SS the whole seconds within the minute, and CC the
\* hundredths truncated; read back, it is the time cut to a centisecond.
C8_LrcTimeFields ==
    seconds >= 0 =>
        LET n == Len(lrc_time)
            inner == SubSeq(lrc_time, 2, n - 1)
            parts == Split(inner, <<":">>)
            mm == parts[1]
            rest == parts[2]
        IN /\ lrc_time[1] = "[" /\ lrc_time[n] = "]"
           /\ Len(parts) = 2
           /\ Len(mm) >= 2 /\ AllDigits(mm)
           /\ DecVal(mm) = seconds \div 60000
           /\ (seconds >= 3600 * 1000 => DecVal(mm) >= 60)
           /\ Len(rest) = 5 /\ rest[3] = "."
           /\ AllDigits(SubSeq(rest, 1, 2)) /\ AllDigits(SubSeq(rest, 4, 5))
           /\ DecVal(SubSeq(rest, 1, 2)) = (seconds \div 1000) % 60
           /\ DecVal(SubSeq(rest, 4, 5)) = (seconds \div 10) % 100
           /\ parse_time(inner) = Returned((seconds \div 10) * 10)

\* 1:01:59.999 is rendered [61:59.99]
C8_Witness ==
    /\ seconds = (3600 + 60 + 59) * 1000 + 999
    /\ lrc_time = <<"[", "6", "1", ":", "5", "9", ".", "9", "9", "]">>

\* ------------------------------------------------------------------------
\* Claims about parse_srt_file
\* ------------------------------------------------------------------------
Range(q) == {q[i] : i \in DOMAIN q}

\* the cues of the document's blocks in document order (line 67), and the
\* same cues sorted (line 72)
InputCues == collect(srt_blocks(content))

SortedCues == sort_by_start(InputCues)

\* the dedup pass as C1 states it: dropped iff same text as the last
\* retained cue and start within 0.1 s of it
RECURSIVE C1_Pass(_, _)
C1_Pass(kept, rest) ==
    IF rest = <<>> THEN kept
    ELSE LET cur == rest[1]
             drop == /\ kept # <<>>
                     /\ cur[3] = kept[Len(kept)][3]
                     /\ Abs(cur[1] - kept[Len(kept)][1]) <= 100
         IN C1_Pass(IF drop THEN kept ELSE Append(kept, cur), Tail(rest))

\* C1: over the start-sorted cues, a cue is dropped exactly when it has the
\* text of the preceding retained cue and starts within 0.1 s of it; every
\* other cue is retained.
C1_DropIffSameTextAndNear ==
    pc = "parsed" => subtitles = C1_Pass(<<>>, SortedCues)

\* C2: the returned cues are non-decreasing in start; cues of equal start
\* keep their document order, so that of the cues of least start the one
\* returned first is the first in the document.
C2_SortedStable ==
    pc = "parsed" =>
        LET ic == InputCues
            least == {p \in DOMAIN ic : \A q \in DOMAIN ic : ic[p][1] <= ic[q][1]}
        IN /\ \A i, j \in DOMAIN subtitles :
                  i < j => subtitles[i][1] <= subtitles[j][1]
           /\ \A i, j \in DOMAIN subtitles :
                  (i < j /\ subtitles[i][1] = subtitles[j][1]) =>
                      \E p, q \in DOMAIN ic :
                          p < q /\ ic[p] = subtitles[i] /\ ic[q] = subtitles[j]
           /\ ic # <<>> =>
                  /\ subtitles # <<>>
                  /\ subtitles[1] = ic[CHOOSE p \in least : \A q \in least : p <= q]

\* a document whose cues are out of order and hold a tie was parsed to
\* two cues or more
C2_Witness ==
    /\ pc = "parsed"
    /\ Len(subtitles) >= 2
    /\ LET ic == InputCues
       IN /\ \E p, q \in DOMAIN ic : p < q /\ ic[p][1] > ic[q][1]
          /\ \E p, q \in DOMAIN ic : p # q /\ ic[p][1] = ic[q][1] /\ ic[p] # ic[q]

\* the blocks of the document, and those the loop can take no cue from
DocBlocks == Split(Strip(content), <<"\n", "\n">>)

IsBadBlock(b) == b \in BadBlocks

Without(q, i) == SubSeq(q, 1, i - 1) \o SubSeq(q, i + 1, Len(q))

\* the cue of a cue block is returned, or the dedup pass dropped it against
\* a returned cue (same text, or a start within 0.1 s)
Accounted(d) ==
    LET cue == <<d.start, d.end, strip_tags(d.text)>>
    IN \/ cue \in Range(subtitles)
       \/ \E r \in Range(subtitles) :
              r[3] = cue[3] \/ Abs(r[1] - cue[1]) <= 100

\* every cue block of the document is accounted for in the result
RestParsed(blocks) ==
    \A d \in CueShapes : CueBlock(d) \in Range(blocks) => Accounted(d)

C11_CueWellFormed ==
    pc = "parsed" =>
        \A c \in Range(subtitles) : c[1] >= 0 /\ c[2] >= c[1]

\* ------------------------------------------------------------------------
\* Claims about the window filter and the rendering
\* ------------------------------------------------------------------------
\* a window was given and parsed, and the conversion ran
Windowed == pc = "converted" /\ conv.ok /\ conv.windowed

\* C3: with a window, a cue is kept iff cue.start < window.end and
\* cue.end > window.start; a cue that only touches a boundary is excluded;
\* the kept cues keep their order.
C3_OverlapExact ==
    Windowed =>
        /\ conv.filtered_subs =
               SelectSeq(conv.all_subs,
                         LAMBDA c : c[1] < conv.end_sec /\ c[2] > conv.start_sec)
        /\ \A c \in Range(conv.all_subs) :
               (c[2] = conv.start_sec \/ c[1] = conv.end_sec) =>
                   c \notin Range(conv.filtered_subs)

\* window 00:06-00:10 on cues 4-6, 5-6, 6-10, 20-24.4: the two cues that end
\* at 6 s are excluded, the cue 6-10 is kept
C3_Witness ==
    /\ Windowed
    /\ conv.start_sec = 6000
    /\ <<5000, 6000, <<"H", "i">>>> \in Range(conv.all_subs)
    /\ conv.filtered_subs = << <<6000, 10000, <<"Y", "o">>>> >>

\* the position of the first ']' of a line, and the time its tag reads as
TagEnd(line) == CHOOSE k \in DOMAIN line : line[k] = "]" /\ \A j \in 1..(k - 1) : line[j] # "]"

TagTime(line) == parse_time(SubSeq(line, 2, TagEnd(line) - 1))

\* C4: every rendered line carries the timestamp cue.start - offset, offset
\* being window.start with a window and 0 without; without a window no cue
\* is filtered out and every parsed cue gives exactly one line, in order.
C4_OffsetAndNoWindow ==
    (pc = "converted" /\ conv.ok) =>
        LET offset == IF conv.windowed THEN parse_time(start_time).val ELSE 0
            shown == SelectSeq(conv.filtered_subs, LAMBDA c : c[1] >= offset)
        IN /\ Len(conv.lrc_lines) = Len(shown)
           /\ \A i \in DOMAIN shown :
                  LET line == conv.lrc_lines[i]
                  IN /\ line[1] = "["
                     /\ TagTime(line) = Returned(((shown[i][1] - offset) \div 10) * 10)
                     /\ Tail_from(line, TagEnd(line) + 1) = shown[i][3]
           /\ conv.windowed = (Given(start_time) /\ Given(end_time))
           /\ ~conv.windowed =>
                  /\ conv.filtered_subs = conv.all_subs
                  /\ Len(conv.lrc_lines) = Len(conv.all_subs)

\* "Hello world" at 20 s under the window 00:00:10-00:00:30 is the line
\* [00:10.00]Hello world
C4_Witness ==
    /\ Windowed
    /\ start_time = Plain3(0, 0, 10)
    /\ conv.lrc_lines =
           << <<"[", "0", "0", ":", "1", "0", ".", "0", "0", "]">> \o HelloWorld >>

\* C5: a cue that passes the overlap filter but starts before window.start
\* gives no line; it is never rendered with the timestamp [00:00.00].
C5_NegativeDropped ==
    Windowed =>
        LET early == {i \in DOMAIN conv.filtered_subs :
                         conv.filtered_subs[i][1] < conv.start_sec}
            zero == <<"[", "0", "0", ":", "0", "0", ".", "0", "0", "]">>
        IN /\ Len(conv.lrc_lines) = Len(conv.filtered_subs) - Cardinality(early)
           /\ \A c \in Range(conv.filtered_subs) :
                  (c[1] < conv.start_sec /\
                   ~\E o \in Range(conv.filtered_subs) :
                        /\ o[3] = c[3]
                        /\ o[1] >= conv.start_sec
                        /\ o[1] < conv.start_sec + 10) =>
                       (zero \o c[3]) \notin Range(conv.lrc_lines)

\* window 00:05-00:10: the cue 4-6 s passes the filter and gives no line
C5_Witness ==
    /\ Windowed
    /\ conv.start_sec = 5000
    /\ <<4000, 6000, <<"Y", "o">>>> \in Range(conv.filtered_subs)
    /\ Len(conv.lrc_lines) = Len(conv.filtered_subs) - 1

\* exactly one of the two boundaries was given
OneBoundary == Given(start_time) # Given(end_time)

MalformedWindow ==
    /\ Given(start_time)
    /\ Given(end_time)
    /\ ~parse_time(start_time).ok \/ ~parse_time(end_time).ok

\* C10: a run given a malformed window boundary ends in an error, and no LRC
\* text is written or embedded in it.
C10_MalformedWindowFatal ==
    (run.outcome # "none" /\ MalformedWindow) =>
        /\ run.outcome = "error"
        /\ ~run.wrote
        /\ ~run.embedded

\* what the conversion of this run's document under this run's window
\* gives, and the LRC text written from it
FreshConversion == srt_to_lrc(content, start_time, end_time)

FreshText ==
    lrc_text(IF mode = "merge" THEN MergeHeader ELSE MainHeader,
             FreshConversion.lrc_lines)

\* C13: the lyrics a run embeds in the final MP3 are the conversion of the
\* run's own document under the run's own window, never an LRC file that an
\* earlier run with another window left in the source directory.
C13_EmbedsFreshConversion ==
    run.embedded =>
        /\ FreshConversion.ok
        /\ final_mp3 = TaggedMp3(FreshText)

\* C14: in download mode a file at the final MP3 path carries the embedded
\* lyrics at the end of every run, so that a run that ends with 'Task
\* completed' on an existing final file ends on a tagged one.
C14_FinalCarriesLyrics ==
    (mode = "download" /\ run.outcome # "none") =>
        /\ final_mp3.exists => final_mp3.tagged
        /\ run.outcome = "exists" => final_mp3.tagged

====
